---- MODULE Spec2Model ----
(***************************************************************************)
(* The HTML-to-block converter of notional (src/notional/parser.py,       *)
(* class HtmlParser) as a state machine.  The recursive descent of        *)
(* _render / _process_contents is run on an explicit call stack, one step *)
(* per handler entry, handler return, leading-text and tail-text call.    *)
(*                                                                         *)
(* The module-level function normalize_text is run on its own, under      *)
(* NormSpec, and the class CsvParser under CsvSpec.                        *)
(*                                                                         *)
(* Optional values (Python None) are sequences of length at most one:     *)
(* None is <<>>, a present value v is <<v>>.  A string is a sequence of   *)
(* one-character strings.                                                  *)
(***************************************************************************)
EXTENDS Integers, Sequences, FiniteSets, TLC

VARIABLES data, content, title, meta, base_url, href, style, stack, status

\* the argument and the results of successive calls of normalize_text
VARIABLES norm

\* the fields of a CsvParser (title and content are those of DocumentParser),
\* and the rows its csv.reader has not yet given
VARIABLES schema, _field_names, _has_header, _title_index, reader

vars ==
    <<data, content, title, meta, base_url, href, style, stack, status, norm,
      schema, _field_names, _has_header, _title_index, reader>>

csv_vars == <<schema, _field_names, _has_header, _title_index, reader>>

-----------------------------------------------------------------------------
(* Values *)

None == <<>>

Some(v) == <<v>>

\* the characters matched by \s in the texts of the model
WS == {" ", "\t", "\n"}

\* largest number of li children of a generated list / td cells of a generated row
MaxItems == 3

\* deepest nesting of generated inline style elements
MaxNest == 2

\* longest string handed to normalize_text
MaxText == 4

\* most fields of a row of CSV data, and most rows after the first
MaxCols == 3

MaxRows == 2

-----------------------------------------------------------------------------
(* Text normalisation: parser.py, module level *)

\* CsvParser.__init__ with its defaults, and no reader
CsvIdle ==
    /\ schema = <<>>
    /\ _field_names = <<>>
    /\ _has_header = TRUE
    /\ _title_index = 0
    /\ reader = <<>>


RECURSIVE Collapse(_)
\* re.sub(r"\s+", " ", text): every maximal run of whitespace becomes one space
Collapse(s) ==
    IF s = <<>> THEN <<>>
    ELSE IF Head(s) \in WS
         THEN IF Len(s) > 1 /\ s[2] \in WS
              THEN Collapse(Tail(s))
              ELSE <<" ">> \o Collapse(Tail(s))
         ELSE <<Head(s)>> \o Collapse(Tail(s))

RECURSIVE LStrip(_)
LStrip(s) == IF s # <<>> /\ Head(s) \in WS THEN LStrip(Tail(s)) ELSE s

RECURSIVE RStrip(_)
RStrip(s) ==
    IF s # <<>> /\ s[Len(s)] \in WS THEN RStrip(SubSeq(s, 1, Len(s) - 1)) ELSE s

\* str.strip()
Strip(s) == RStrip(LStrip(s))

condense_text(text) ==
    IF text = None THEN None
    ELSE LET t == Collapse(text[1]) IN IF t = <<>> THEN None ELSE Some(t)

\* normalize_text without its strip: condense_text alone
normalize_text_unstripped(text) == condense_text(text)

normalize_text(text) ==
    IF text = None THEN None ELSE condense_text(Some(Strip(text[1])))

RECURSIVE IterText(_)
RECURSIVE IterKids(_, _)
\* "".join(elem.itertext()): the element's text, then each child's itertext and tail
IterText(elem) ==
    (IF elem.text = None THEN <<>> ELSE elem.text[1]) \o IterKids(elem.kids, 1)

IterKids(kids, i) ==
    IF i > Len(kids) THEN <<>>
    ELSE IterText(kids[i])
         \o (IF kids[i].tail = None THEN <<>> ELSE kids[i].tail[1])
         \o IterKids(kids, i + 1)

gather_text(elem) == normalize_text(Some(IterText(elem)))

-----------------------------------------------------------------------------
(* Block model: the blocks and text modules the parser imports *)

\* Annotations(): the five style flags, all off
NoStyle ==
    [bold |-> FALSE, italic |-> FALSE, strikethrough |-> FALSE,
     underline |-> FALSE, code |-> FALSE]

\* blocks.TextBlock: the variants that own text runs
TextBlock ==
    {"paragraph", "heading_1", "heading_2", "heading_3", "quote", "code",
     "bulleted_list_item", "numbered_list_item"}

ListItem == {"bulleted_list_item", "numbered_list_item"}

\* a freshly constructed block of the given variant
Block(type) ==
    [type |-> type, runs |-> <<>>, children |-> <<>>, cells |-> <<>>,
     url |-> None, has_column_header |-> FALSE]

\* blocks.Image(image=ExternalFile.from_url(src)), blocks.Embed.from_url(src)
UrlBlock(type, src) == [Block(type) EXCEPT !.url = Some(src)]

TextRun(string, link, annotations) ==
    [content |-> string, annotations |-> annotations, link |-> link]

\* TextObject.from_value(text, href=href, **style): no run for a null or empty text
from_value(text, link, annotations) ==
    IF text = None \/ text[1] = <<>> THEN None
    ELSE Some(TextRun(text[1], link, annotations))

\* TextBlock.concat(obj): merge into the trailing run when annotations and link
\* are identical, else start a new run
concat(block, obj) ==
    LET n == Len(block.runs) IN
    IF n > 0 /\ block.runs[n].annotations = obj.annotations
             /\ block.runs[n].link = obj.link
    THEN [block EXCEPT !.runs[n].content = @ \o obj.content]
    ELSE [block EXCEPT !.runs = Append(@, obj)]

RECURSIVE MaxCells(_, _)
MaxCells(rows, i) ==
    IF i > Len(rows) THEN 0
    ELSE LET w == Len(rows[i].cells)
             r == MaxCells(rows, i + 1)
         IN IF w > r THEN w ELSE r

\* Table.Width: the largest cell count over the table's rows, 0 without rows
Width(table) == MaxCells(table.children, 1)

-----------------------------------------------------------------------------
(* The parser's state as one record, and the containers a parent names *)

St ==
    [content |-> content, title |-> title, meta |-> meta, base_url |-> base_url,
     href |-> href, style |-> style, stack |-> stack, status |-> status]

Set(m) ==
    /\ content' = m.content
    /\ title' = m.title
    /\ meta' = m.meta
    /\ base_url' = m.base_url
    /\ href' = m.href
    /\ style' = m.style
    /\ stack' = m.stack
    /\ status' = m.status
    /\ data' = data
    /\ norm' = norm
    /\ UNCHANGED csv_vars

\* A parent is 0 for self.content, or the index of the stack frame whose local
\* variable holds the block under construction.
ParentBlock(m, parent) == m.stack[parent].own[1]

IsTextBlock(m, parent) == parent # 0 /\ ParentBlock(m, parent).type \in TextBlock

IsTableRow(m, parent) == parent # 0 /\ ParentBlock(m, parent).type = "table_row"

IsCode(m, parent) == parent # 0 /\ ParentBlock(m, parent).type = "code"

\* parent.append(obj): list.append for self.content, the child-append of a block,
\* the cell-append of a TableRow (which is handed None by _process_text)
append(m, parent, obj) ==
    IF parent = 0 THEN [m EXCEPT !.content = Append(@, obj[1])]
    ELSE IF IsTableRow(m, parent)
         THEN [m EXCEPT !.stack[parent].own[1].cells = Append(@, obj)]
         ELSE [m EXCEPT !.stack[parent].own[1].children = Append(@, obj[1])]

\* parent.concat(obj) on the block a parent names
parent_concat(m, parent, obj) ==
    [m EXCEPT !.stack[parent].own[1] = concat(@, obj)]

\* _process_text with a run of default annotations instead of the current ones
_process_text_unstyled(m, text, parent) ==
    LET t == IF IsCode(m, parent) THEN text ELSE condense_text(text)
        obj == from_value(t, m.href, NoStyle)
    IN IF IsTextBlock(m, parent)
       THEN IF obj # None THEN parent_concat(m, parent, obj[1]) ELSE m
       ELSE IF IsTableRow(m, parent) THEN append(m, parent, obj) ELSE m

_process_text(m, text, parent) ==
    LET t == IF IsCode(m, parent) THEN text ELSE condense_text(text)
        obj == from_value(t, m.href, m.style)
    IN IF IsTextBlock(m, parent)
       THEN IF obj # None THEN parent_concat(m, parent, obj[1]) ELSE m
       ELSE IF IsTableRow(m, parent) THEN append(m, parent, obj) ELSE m

-----------------------------------------------------------------------------
(* The call stack.  A frame is one running handler:                        *)
(*   h      the handler function that runs (an alias runs its target)      *)
(*   elem   its element                                                     *)
(*   parent the parent it was called with                                   *)
(*   cpar   the parent its children are rendered into                       *)
(*   own    the block it holds in a local variable, if any                  *)
(*   kidsq  the elements its loop iterates, i the next one                  *)
(*   loop   "contents" (_process_contents), "findall" (ul, ol, tr), "root"  *)
(*   pos    "text", "child", "tail" or "after": where the loop stands       *)

Frame(h, elem, parent, cpar, own, kidsq, loop, pos) ==
    [h |-> h, elem |-> elem, parent |-> parent, cpar |-> cpar, own |-> own,
     kidsq |-> kidsq, i |-> 1, loop |-> loop, pos |-> pos]

Top == stack[Len(stack)]

RECURSIVE iter(_, _)
\* elem.iter(tag) without elem itself: every descendant with that tag
iter(elem, tag) ==
    LET below[i \in 0..Len(elem.kids)] ==
            IF i = 0 THEN <<>>
            ELSE below[i - 1]
                 \o (IF elem.kids[i].tag = tag THEN <<elem.kids[i]>> ELSE <<>>)
                 \o iter(elem.kids[i], tag)
    IN below[Len(elem.kids)]

\* elem.findall(tag): the direct children with that tag, in document order
findall(elem, tag) == SelectSeq(elem.kids, LAMBDA k: k.tag = tag)

\* the caller goes on after the _render call it made has returned
Resume(m) ==
    LET n == Len(m.stack)
        f == m.stack[n]
    IN CASE f.loop = "contents" -> [m EXCEPT !.stack[n].pos = "tail"]
         [] f.loop = "findall" /\ f.h \in {"ul", "ol"} ->
                [m EXCEPT !.stack[n].pos = "after"]
         [] OTHER -> [m EXCEPT !.stack[n].i = @ + 1]

\* a handler returns to its caller
Pop(m) == Resume([m EXCEPT !.stack = SubSeq(@, 1, Len(@) - 1)])

\* self._process_contents(elem, parent) called by handler h, which holds block
\* own (when it made one, parent is that block)
_process_contents(m, h, elem, parent, own) ==
    LET n == Len(m.stack) + 1
    IN [m EXCEPT !.stack =
           Append(@, Frame(h, elem, parent, IF own = None THEN parent ELSE n,
                           own, elem.kids, "contents", "text"))]

\* _process_contents, line 421: the element's leading text
process_contents_text ==
    /\ status = "running"
    /\ stack # <<>>
    /\ Top.loop = "contents"
    /\ Top.pos = "text"
    /\ Set([_process_text(St, Top.elem.text, Top.cpar)
              EXCEPT !.stack[Len(stack)].pos = "child"])

\* _process_contents without its line 427: the tail text is passed over
process_contents_tail_skip ==
    /\ status = "running"
    /\ stack # <<>>
    /\ Top.loop = "contents"
    /\ Top.pos = "tail"
    /\ Set([St EXCEPT !.stack[Len(stack)].pos = "child",
                      !.stack[Len(stack)].i = @ + 1])

\* _process_contents, line 427: the tail text of the child just rendered
process_contents_tail ==
    /\ status = "running"
    /\ stack # <<>>
    /\ Top.loop = "contents"
    /\ Top.pos = "tail"
    /\ Set([_process_text(St, Top.kidsq[Top.i].tail, Top.cpar)
              EXCEPT !.stack[Len(stack)].pos = "child",
                     !.stack[Len(stack)].i = @ + 1])

\* the running frame is about to call self._render(child, parent)
Pending ==
    /\ status = "running"
    /\ stack # <<>>
    /\ Top.pos = "child"
    /\ Top.i <= Len(Top.kidsq)

Child == Top.kidsq[Top.i]

\* _render finds the handler _render_<tag>
Dispatch(tag) == Pending /\ Child.tag = tag

\* handler h has finished its loop
Returning(h) ==
    /\ status = "running"
    /\ stack # <<>>
    /\ Top.h = h
    /\ Top.pos = "child"
    /\ Top.i > Len(Top.kidsq)

\* the tags for which HtmlParser has a method _render_<tag>
Handlers ==
    {"a", "b", "base", "blockquote", "body", "br", "code", "dd", "del", "div",
     "dl", "dt", "em", "h1", "h2", "h3", "head", "hr", "html", "i", "iframe",
     "img", "ins", "kbd", "li", "menu", "meta", "object", "ol", "p", "pre", "s",
     "samp", "strike", "strong", "table", "tbody", "td", "tfoot", "th", "thead",
     "title", "tr", "tt", "u", "ul", "var"}

\* a handler that only processes the contents into the parent it was given
Pass(m, h, elem, parent) == _process_contents(m, h, elem, parent, None)

\* _render as it would be if an element without handler were descended into
_render_descend ==
    /\ Pending
    /\ Child.tag \notin Handlers
    /\ Set(Pass(St, "div", Child, Top.cpar))

\* _render: no handler, nothing is called
_render ==
    /\ Pending
    /\ Child.tag \notin Handlers
    /\ Set(Resume(St))

\* a handler that sets a style flag, processes the contents and resets the flag
Toggle(m, h, flag, elem, parent) ==
    _process_contents([m EXCEPT !.style[flag] = TRUE], h, elem, parent, None)

\* the return of such a handler without the reset of its flag
ToggleRet_keep(m, flag) == Pop(m)

ToggleRet(m, flag) == Pop([m EXCEPT !.style[flag] = FALSE])

\* a handler that makes a block, processes the contents into it and appends it
NewBlock(m, h, type, elem, parent) ==
    _process_contents(m, h, elem, parent, Some(Block(type)))

\* such a handler without its last line: the block is never appended
NewBlockRet_drop(m) == Pop(m)

NewBlockRet(m) ==
    LET f == m.stack[Len(m.stack)] IN Pop(append(m, f.parent, f.own))

-----------------------------------------------------------------------------
(* The handlers.  _render_<tag> is the step in which _render calls the      *)
(* handler, up to its call of _process_contents (or to its return, when it  *)
(* makes none); _render_<tag>_ret is the rest of the handler, run when      *)
(* _process_contents has returned.  render_<tag> is the body of a handler   *)
(* that another handler calls as well.                                      *)

Raise(m, error) == [m EXCEPT !.status = error]

render_a(m, elem, parent) ==
    _process_contents([m EXCEPT !.href = elem.attrs.href], "a", elem, parent, None)

_render_a == Dispatch("a") /\ Set(render_a(St, Child, Top.cpar))

\* _render_a without its last line: the link is left set
_render_a_ret_keep == Returning("a") /\ Set(Pop(St))

_render_a_ret == Returning("a") /\ Set(Pop([St EXCEPT !.href = None]))

render_b(m, elem, parent) == Toggle(m, "b", "bold", elem, parent)

_render_b == Dispatch("b") /\ Set(render_b(St, Child, Top.cpar))

\* _render_b without its last line: the flag is left set
_render_b_ret_keep == Returning("b") /\ Set(Pop(St))

_render_b_ret == Returning("b") /\ Set(ToggleRet(St, "bold"))

render_base(m, elem, parent) ==
    IF elem.attrs.href # None THEN [m EXCEPT !.base_url = elem.attrs.href] ELSE m

_render_base == Dispatch("base") /\ Set(Resume(render_base(St, Child, Top.cpar)))

_render_blockquote == Dispatch("blockquote") /\ Set(NewBlock(St, "blockquote", "quote", Child, Top.cpar))

_render_blockquote_ret == Returning("blockquote") /\ Set(NewBlockRet(St))

_render_body == Dispatch("body") /\ Set(_process_contents(St, "body", Child, Top.cpar, None))

_render_body_ret == Returning("body") /\ Set(Pop(St))

\* parent.concat("\n"): the string becomes a run without style or link
render_br(m, elem, parent) ==
    IF IsTextBlock(m, parent)
    THEN parent_concat(m, parent, TextRun(<<"\n">>, None, NoStyle))
    ELSE m

_render_br == Dispatch("br") /\ Set(Resume(render_br(St, Child, Top.cpar)))

render_code(m, elem, parent) == Toggle(m, "code", "code", elem, parent)

_render_code == Dispatch("code") /\ Set(render_code(St, Child, Top.cpar))

_render_code_ret == Returning("code") /\ Set(ToggleRet(St, "code"))

_render_dd == Dispatch("dd") /\ Set(_process_contents(St, "dd", Child, Top.cpar, None))

_render_dd_ret == Returning("dd") /\ Set(Pop(St))

render_del(m, elem, parent) == Toggle(m, "del", "strikethrough", elem, parent)

_render_del == Dispatch("del") /\ Set(render_del(St, Child, Top.cpar))

_render_del_ret == Returning("del") /\ Set(ToggleRet(St, "strikethrough"))

_render_div == Dispatch("div") /\ Set(_process_contents(St, "div", Child, Top.cpar, None))

_render_div_ret == Returning("div") /\ Set(Pop(St))

_render_dl == Dispatch("dl") /\ Set(NewBlock(St, "dl", "paragraph", Child, Top.cpar))

_render_dl_ret == Returning("dl") /\ Set(NewBlockRet(St))

_render_dt == Dispatch("dt") /\ Set(_process_contents(St, "dt", Child, Top.cpar, None))

_render_dt_ret == Returning("dt") /\ Set(Pop(St))

render_i(m, elem, parent) == Toggle(m, "i", "italic", elem, parent)

_render_em == Dispatch("em") /\ Set(render_i(St, Child, Top.cpar))

_render_h1 == Dispatch("h1") /\ Set(NewBlock(St, "h1", "heading_1", Child, Top.cpar))

_render_h1_ret == Returning("h1") /\ Set(NewBlockRet(St))

_render_h2 == Dispatch("h2") /\ Set(NewBlock(St, "h2", "heading_2", Child, Top.cpar))

_render_h2_ret == Returning("h2") /\ Set(NewBlockRet(St))

_render_h3 == Dispatch("h3") /\ Set(NewBlock(St, "h3", "heading_3", Child, Top.cpar))

_render_h3_ret == Returning("h3") /\ Set(NewBlockRet(St))

_render_head == Dispatch("head") /\ Set(_process_contents(St, "head", Child, Top.cpar, None))

_render_head_ret == Returning("head") /\ Set(Pop(St))

render_hr(m, elem, parent) == append(m, parent, Some(Block("divider")))

_render_hr == Dispatch("hr") /\ Set(Resume(render_hr(St, Child, Top.cpar)))

_render_html == Dispatch("html") /\ Set(_process_contents(St, "html", Child, Top.cpar, None))

_render_html_ret == Returning("html") /\ Set(Pop(St))

_render_i == Dispatch("i") /\ Set(render_i(St, Child, Top.cpar))

_render_i_ret == Returning("i") /\ Set(ToggleRet(St, "italic"))

render_iframe(m, elem, parent) ==
    IF elem.attrs.src # None
    THEN append(m, parent, Some(UrlBlock("embed", elem.attrs.src[1])))
    ELSE m

_render_iframe == Dispatch("iframe") /\ Set(Resume(render_iframe(St, Child, Top.cpar)))

render_img(m, elem, parent) ==
    IF elem.attrs.src # None
    THEN append(m, parent, Some(UrlBlock("image", elem.attrs.src[1])))
    ELSE m

_render_img == Dispatch("img") /\ Set(Resume(render_img(St, Child, Top.cpar)))

render_u(m, elem, parent) == Toggle(m, "u", "underline", elem, parent)

_render_ins == Dispatch("ins") /\ Set(render_u(St, Child, Top.cpar))

_render_kbd == Dispatch("kbd") /\ Set(render_code(St, Child, Top.cpar))

_render_li == Dispatch("li") /\ Set(_process_contents(St, "li", Child, Top.cpar, None))

_render_li_ret == Returning("li") /\ Set(Pop(St))

\* for li in elem.findall("li"): block = <item>(); self._render(li, parent=block)
render_list(m, h, type, elem, parent) ==
    LET lis == findall(elem, "li")
        n == Len(m.stack) + 1
    IN [m EXCEPT !.stack =
           Append(@, Frame(h, elem, parent, n,
                           IF lis = <<>> THEN None ELSE Some(Block(type)),
                           lis, "findall", "child"))]

\* parent.append(block), and the next turn of the loop
list_append(m, type) ==
    LET n == Len(m.stack)
        f == m.stack[n]
    IN [append(m, f.parent, f.own)
          EXCEPT !.stack[n].pos = "child",
                 !.stack[n].i = @ + 1,
                 !.stack[n].own =
                     IF f.i < Len(f.kidsq) THEN Some(Block(type)) ELSE None]

render_ul(m, elem, parent) == render_list(m, "ul", "bulleted_list_item", elem, parent)

_render_menu == Dispatch("menu") /\ Set(render_ul(St, Child, Top.cpar))

\* a name or content that is missing or empty records nothing
render_meta(m, elem, parent) ==
    LET name == elem.attrs.name
        value == elem.attrs.content
    IN IF name # None /\ name[1] # <<>> /\ value # None /\ value[1] # <<>>
       THEN [m EXCEPT !.meta =
                [k \in DOMAIN m.meta \cup {name[1]} |->
                    IF k = name[1] THEN value[1] ELSE m.meta[k]]]
       ELSE m

_render_meta == Dispatch("meta") /\ Set(Resume(render_meta(St, Child, Top.cpar)))

_render_object == Dispatch("object") /\ Set(_process_contents(St, "object", Child, Top.cpar, None))

_render_object_ret == Returning("object") /\ Set(Pop(St))

_render_ol == Dispatch("ol") /\ Set(render_list(St, "ol", "numbered_list_item", Child, Top.cpar))

_render_ol_append ==
    /\ status = "running"
    /\ stack # <<>>
    /\ Top.h = "ol"
    /\ Top.pos = "after"
    /\ Set(list_append(St, "numbered_list_item"))

_render_ol_ret == Returning("ol") /\ Set(Pop(St))

_render_p == Dispatch("p") /\ Set(NewBlock(St, "p", "paragraph", Child, Top.cpar))

_render_p_ret == Returning("p") /\ Set(NewBlockRet(St))

render_pre(m, elem, parent) == NewBlock(m, "pre", "code", elem, parent)

_render_pre == Dispatch("pre") /\ Set(render_pre(St, Child, Top.cpar))

_render_pre_ret == Returning("pre") /\ Set(NewBlockRet(St))

\* self._render_del(self, elem, parent): one positional argument too many
_render_s == Dispatch("s") /\ Set(Raise(St, "TypeError"))

_render_samp == Dispatch("samp") /\ Set(render_code(St, Child, Top.cpar))

_render_strike == Dispatch("strike") /\ Set(render_del(St, Child, Top.cpar))

_render_strong == Dispatch("strong") /\ Set(render_b(St, Child, Top.cpar))

_render_table == Dispatch("table") /\ Set(_process_contents(St, "table", Child, Top.cpar, Some(Block("table"))))

\* _render_table without the test of the width
_render_table_ret_always == Returning("table") /\ Set(NewBlockRet(St))

_render_table_ret ==
    /\ Returning("table")
    /\ Set(IF Width(Top.own[1]) > 0 THEN NewBlockRet(St) ELSE Pop(St))

_render_tbody == Dispatch("tbody") /\ Set(_process_contents(St, "tbody", Child, Top.cpar, None))

_render_tbody_ret == Returning("tbody") /\ Set(Pop(St))

render_td(m, elem, parent) ==
    IF elem.text = None
    THEN Resume(_process_text(m, Some(<<" ">>), parent))
    ELSE _process_contents(m, "td", elem, parent, None)

_render_td == Dispatch("td") /\ Set(render_td(St, Child, Top.cpar))

_render_td_ret == Returning("td") /\ Set(Pop(St))

_render_tfoot == Dispatch("tfoot") /\ Set(_process_contents(St, "tfoot", Child, Top.cpar, None))

_render_tfoot_ret == Returning("tfoot") /\ Set(Pop(St))

\* No call reaches this handler: _render_tr renders the td children of a row
\* only, and the tree builder puts a th nowhere but under a tr.  It is not a
\* disjunct of Next.
_render_th == Dispatch("th") /\ Set(render_td(St, Child, Top.cpar))

\* parent.table.has_column_header = True
render_thead(m, elem, parent) ==
    IF parent # 0 /\ ParentBlock(m, parent).type = "table"
    THEN _process_contents(
             [m EXCEPT !.stack[parent].own[1].has_column_header = TRUE],
             "thead", elem, parent, None)
    ELSE Raise(m, "AttributeError")

_render_thead == Dispatch("thead") /\ Set(render_thead(St, Child, Top.cpar))

_render_thead_ret == Returning("thead") /\ Set(Pop(St))

\* _render_title that leaves a title that is already there
render_title_keep(m, elem, parent) ==
    IF m.title = None THEN [m EXCEPT !.title = gather_text(elem)] ELSE m

render_title(m, elem, parent) == [m EXCEPT !.title = gather_text(elem)]

_render_title == Dispatch("title") /\ Set(Resume(render_title(St, Child, Top.cpar)))

\* row = TableRow(); for td in elem.findall("td"): self._render(td, parent=row)
render_tr(m, elem, parent) ==
    LET n == Len(m.stack) + 1
    IN [m EXCEPT !.stack =
           Append(@, Frame("tr", elem, parent, n, Some(Block("table_row")),
                           findall(elem, "td"), "findall", "child"))]

_render_tr == Dispatch("tr") /\ Set(render_tr(St, Child, Top.cpar))

_render_tr_ret == Returning("tr") /\ Set(NewBlockRet(St))

_render_tt == Dispatch("tt") /\ Set(render_pre(St, Child, Top.cpar))

_render_u == Dispatch("u") /\ Set(render_u(St, Child, Top.cpar))

_render_u_ret == Returning("u") /\ Set(ToggleRet(St, "underline"))

_render_ul == Dispatch("ul") /\ Set(render_ul(St, Child, Top.cpar))

_render_ul_append ==
    /\ status = "running"
    /\ stack # <<>>
    /\ Top.h = "ul"
    /\ Top.pos = "after"
    /\ Set(list_append(St, "bulleted_list_item"))

_render_ul_ret == Returning("ul") /\ Set(Pop(St))

_render_var == Dispatch("var") /\ Set(render_code(St, Child, Top.cpar))

-----------------------------------------------------------------------------
(* Inputs: element trees as the HTML tree builder makes them.  The root is  *)
(* html with the children head and body; a p holds no block-level element   *)
(* except below an object; an li is not a child of an li; tr, td and th     *)
(* are found only in a table section, and a section only in a table.        *)

NoAttrs == [src |-> None, href |-> None, name |-> None, content |-> None]

El(tag, text, kids, tail) ==
    [tag |-> tag, attrs |-> NoAttrs, text |-> text, kids |-> kids, tail |-> tail]

\* an element with attributes
ElA(tag, attrs, text, kids, tail) ==
    [tag |-> tag, attrs |-> attrs, text |-> text, kids |-> kids, tail |-> tail]

Html(headkids, bodytext, bodykids) ==
    El("html", None,
       <<El("head", None, headkids, None), El("body", bodytext, bodykids, None)>>,
       None)

SeqsUpTo(S, n) == UNION {[1..k -> S] : k \in 0..n}

HttpUrl == <<"http:", "//x/y.png">>

DataUrl == <<"data:", "image/png", ";", "base64", ",", "AAAA">>

\* a data: URI, as img_data_re tells it
IsDataUrl(url) == url # <<>> /\ url[1] = "data:"

Texts == {None, Some(<<"a">>), Some(<<" ">>)}

Tails == {None, Some(<<" ", "z">>)}

\* inline elements with content, which a p may hold
InlineTags ==
    {"a", "b", "i", "em", "strong", "u", "ins", "s", "strike", "del", "code",
     "tt", "kbd", "samp", "var", "object", "span", "foo"}

\* block-level elements with content
FlowTags ==
    {"p", "blockquote", "div", "dl", "dt", "dd", "h1", "h2", "h3", "pre",
     "ul", "ol", "menu", "li"}

InlineKid == El("b", Some(<<"x">>), <<>>, Some(<<"y">>))

BlockKid == El("p", Some(<<"h", "i">>), <<>>, None)

\* elements without element children: void elements, iframe, title
Leaves ==
    {ElA("img", [NoAttrs EXCEPT !.src = s], None, <<>>, None) :
        s \in {None, Some(HttpUrl), Some(DataUrl)}}
    \cup {ElA("iframe", [NoAttrs EXCEPT !.src = s], None, <<>>, None) :
        s \in {None, Some(HttpUrl)}}
    \cup {ElA("meta", [NoAttrs EXCEPT !.name = n, !.content = c], None, <<>>, None) :
        n \in {None, Some(<<"author">>)}, c \in {None, Some(<<>>), Some(<<"me">>)}}
    \cup {ElA("base", [NoAttrs EXCEPT !.href = h], None, <<>>, None) :
        h \in {None, Some(HttpUrl)}}
    \cup {El("title", t, <<>>, None) :
        t \in Texts \cup {Some(<<" ", "T", "\n", "\t", "U", " ">>)}}
    \cup {El("br", None, <<>>, None), El("hr", None, <<>>, None)}

AttrsOf(tag) == IF tag = "a" THEN [NoAttrs EXCEPT !.href = Some(HttpUrl)] ELSE NoAttrs

\* one element of any kind, for a context that is a p (inP) or is not
Subjects(inP) ==
    {ElA(t, AttrsOf(t), x, k, None) :
        t \in InlineTags, x \in Texts,
        k \in {<<>>, <<InlineKid>>} \cup (IF inP THEN {} ELSE {<<BlockKid>>})}
    \cup {l \in Leaves : ~inP \/ l.tag # "hr"}
    \cup (IF inP
          THEN {El("object", None, <<BlockKid>>, None)}
          ELSE {El(t, x, k, None) :
                   t \in FlowTags, x \in Texts, k \in {<<>>, <<InlineKid>>}}
               \cup {El(t, x, <<BlockKid>>, None) :
                        t \in FlowTags \ {"p"}, x \in Texts})

\* the subjects without children, and the blocks among those with one
Plain ==
    {s \in Subjects(FALSE) :
        s.kids = <<>> \/ (s.tag \in {"p", "h1", "object"} /\ s.text # Some(<<" ">>))}

WithTail(S) == {[s EXCEPT !.tail = z] : s \in S, z \in Tails}

TableOf(sections) == El("table", None, sections, None)

\* the body's children: a subject in a context
InContext ==
      {<<s>> : s \in WithTail(Subjects(FALSE))}
    \cup {<<El("p", Some(<<"x">>), <<s>>, None)>> : s \in WithTail(Subjects(TRUE))}
    \cup {<<El("blockquote", None, <<s>>, None)>> : s \in WithTail(Plain)}
    \cup {<<El("pre", Some(<<"x", "\n", " ">>), <<s>>, None)>> : s \in WithTail(Plain)}
    \cup {<<El("ul", None, <<El("li", Some(<<"x">>), <<s>>, None)>>, None)>> :
             s \in {u \in WithTail(Plain) : u.tag # "li"}}
    \cup {<<TableOf(<<El("tbody", None,
                        <<El("tr", None,
                             <<El("td", Some(<<"x">>), <<s>>, None)>>, None)>>,
                        None)>>)>> :
             s \in WithTail(Plain)}
    \cup {<<El("foo", Some(<<"x">>), <<s>>, None)>> : s \in WithTail(Plain)}

\* lists: up to MaxItems children, li or not
ItemKinds ==
    {El("li", Some(<<"a">>), <<>>, None),
     El("li", Some(<<"b">>), <<InlineKid>>, Some(<<"\n">>)),
     El("div", None, <<El("li", Some(<<"c">>), <<>>, None)>>, None),
     El("li", None, <<El("ul", None, <<El("li", Some(<<"d">>), <<>>, None)>>, None)>>,
        None)}

Lists ==
    {<<El(t, None, k, None)>> : t \in {"ul", "ol", "menu"},
                               k \in SeqsUpTo(ItemKinds, MaxItems)}

\* tables: rows of up to MaxItems cells, td or th, in sections
CellKinds ==
    {El("td", Some(<<"a">>), <<>>, None),
     El("td", None, <<>>, None),
     El("th", Some(<<"h">>), <<>>, None),
     El("td", Some(<<"b">>), <<InlineKid>>, None)}

Rows == {El("tr", None, c, None) : c \in SeqsUpTo(CellKinds, MaxItems)}

\* rows of which every cell is the same kind of cell
UniformRows ==
    {El("tr", None, [i \in 1..n |-> c], None) : n \in 0..MaxItems, c \in CellKinds}

Tables ==
      {<<TableOf(<<El("tbody", None, <<r>>, None)>>)>> : r \in Rows}
    \cup {<<TableOf(<<El(h, None, <<r1>>, None), El("tbody", Some(<<"\n">>), <<r2>>, None)>>)>> :
             h \in {"thead", "tfoot"}, r1 \in UniformRows, r2 \in UniformRows}
    \cup {<<TableOf(<<El("tbody", None, <<r1, r2>>, None)>>)>> :
             r1 \in UniformRows, r2 \in UniformRows}
    \cup {<<El("table", x, k, None)>> :
             x \in {None, Some(<<"\n">>)},
             k \in {<<>>, <<El("tbody", None, <<>>, None)>>,
                    <<El("caption", Some(<<"c">>), <<>>, None)>>}}

\* nested inline style elements and links, up to MaxNest deep, in a paragraph
StyleTags == {"b", "strong", "i", "u", "del", "code", "a"}

Upper == <<"A", "B", "C", "D", "E", "F">>

Lower == <<"u", "v", "w", "x", "y", "z">>

RECURSIVE NestEl(_, _)
NestEl(tags, i) ==
    ElA(tags[i], AttrsOf(tags[i]), Some(<<Upper[i]>>),
        IF i < Len(tags) THEN <<NestEl(tags, i + 1)>> ELSE <<>>,
        Some(<<Lower[i]>>))

\* a second a is never below an a (the tree builder closes the first one)
Nests ==
    {<<El("p", None, <<NestEl(tags, 1)>>, None)>> :
        tags \in {q \in UNION {[1..k -> StyleTags] : k \in 1..MaxNest} :
                     Cardinality({i \in DOMAIN q : q[i] = "a"}) <= 1}}

\* the documents of the specification's scenarios
ExUnknown == <<El("foo", None, <<El("p", Some(<<"h", "i">>), <<>>, None)>>, None)>>

ExToggle ==
    <<El("p", None,
         <<El("b", Some(<<"A">>),
              <<El("b", Some(<<"B">>), <<>>, Some(<<"C">>))>>, None)>>, None)>>

ExEndToEnd ==
    <<El("h1", Some(<<"T", "i", "t", "l", "e">>), <<>>, None),
      El("p", Some(<<"H", "e", "l", "l", "o", " ">>),
         <<El("b", Some(<<"w", "o", "r", "l", "d">>), <<>>, None)>>, None),
      El("hr", None, <<>>, None)>>

ExList ==
    <<El("ul", None,
         <<El("li", Some(<<"a">>), <<>>, None), El("li", Some(<<"b">>), <<>>, None)>>,
         None)>>

\* an a below an a, which an object in between makes possible
ExLinks ==
    <<El("p", None,
         <<ElA("a", AttrsOf("a"), Some(<<"A">>),
               <<El("object", None,
                    <<ElA("a", AttrsOf("a"), Some(<<"B">>), <<>>, None)>>,
                    Some(<<"C">>))>>, None)>>, None)>>

Examples == {ExUnknown, ExToggle, ExEndToEnd, ExList, ExLinks}

\* the head: up to two of title, meta and base
HeadKinds ==
    {El("title", Some(<<"T">>), <<>>, None),
     El("title", Some(<<" ", "U", "\n", " ", "V", " ">>), <<>>, None),
     El("title", None, <<>>, None),
     ElA("meta", [NoAttrs EXCEPT !.name = Some(<<"author">>),
                                 !.content = Some(<<"me">>)], None, <<>>, None),
     ElA("meta", [NoAttrs EXCEPT !.name = Some(<<"author">>),
                                 !.content = Some(<<"you">>)], None, <<>>, None),
     ElA("base", [NoAttrs EXCEPT !.href = Some(HttpUrl)], None, <<>>, None)}

HeadDocs ==
    {Html(h, None, k) :
        h \in SeqsUpTo(HeadKinds, 2),
        k \in {<<>>, <<El("title", Some(<<"B">>), <<>>, None)>>}}

Docs ==
    {Html(<<>>, None, k) :
        k \in InContext \cup Lists \cup Tables \cup Nests \cup Examples}

Inputs ==
    {[doc |-> d, name |-> None] : d \in Docs}
    \cup {[doc |-> d, name |-> n] :
             d \in HeadDocs, n \in {None, Some(<<"notes", "page.html">>)}}

-----------------------------------------------------------------------------
(* parse *)

\* os.path.basename of a path given as its components
basename(name) == <<name[Len(name)]>>

\* DocumentParser.parse and HtmlParser.parse, to the call self._render(doc)
parse ==
    /\ status = "init"
    /\ Set([St EXCEPT
              !.title = IF data.name # None THEN Some(basename(data.name[1])) ELSE @,
              !.stack = <<Frame("parse", data.doc, 0, 0, None, <<data.doc>>,
                                "root", "child")>>,
              !.status = "running"])

\* self._render(doc) has returned, and parse returns
parse_ret ==
    /\ Returning("parse")
    /\ Set([St EXCEPT !.stack = <<>>, !.status = "done"])

\* HtmlParser.__init__ (and the input that parse is going to be given)
Init ==
    /\ data \in Inputs
    /\ content = <<>>
    /\ title = None
    /\ meta = <<>>
    /\ base_url = None
    /\ href = None
    /\ style = NoStyle
    /\ stack = <<>>
    /\ status = "init"
    /\ norm = <<>>
    /\ CsvIdle

Next ==
    \/ parse \/ parse_ret
    \/ process_contents_text \/ process_contents_tail
    \/ _render
    \/ _render_a \/ _render_a_ret
    \/ _render_b \/ _render_b_ret
    \/ _render_base
    \/ _render_blockquote \/ _render_blockquote_ret
    \/ _render_body \/ _render_body_ret
    \/ _render_br
    \/ _render_code \/ _render_code_ret
    \/ _render_dd \/ _render_dd_ret
    \/ _render_del \/ _render_del_ret
    \/ _render_div \/ _render_div_ret
    \/ _render_dl \/ _render_dl_ret
    \/ _render_dt \/ _render_dt_ret
    \/ _render_em
    \/ _render_h1 \/ _render_h1_ret
    \/ _render_h2 \/ _render_h2_ret
    \/ _render_h3 \/ _render_h3_ret
    \/ _render_head \/ _render_head_ret
    \/ _render_hr
    \/ _render_html \/ _render_html_ret
    \/ _render_i \/ _render_i_ret
    \/ _render_iframe
    \/ _render_img
    \/ _render_ins
    \/ _render_kbd
    \/ _render_li \/ _render_li_ret
    \/ _render_menu
    \/ _render_meta
    \/ _render_object \/ _render_object_ret
    \/ _render_ol \/ _render_ol_append \/ _render_ol_ret
    \/ _render_p \/ _render_p_ret
    \/ _render_pre \/ _render_pre_ret
    \/ _render_s
    \/ _render_samp
    \/ _render_strike
    \/ _render_strong
    \/ _render_table \/ _render_table_ret
    \/ _render_tbody \/ _render_tbody_ret
    \/ _render_td \/ _render_td_ret
    \/ _render_tfoot \/ _render_tfoot_ret
    \/ _render_thead \/ _render_thead_ret
    \/ _render_title
    \/ _render_tr \/ _render_tr_ret
    \/ _render_tt
    \/ _render_u \/ _render_u_ret
    \/ _render_ul \/ _render_ul_append \/ _render_ul_ret
    \/ _render_var

Spec == Init /\ [][Next]_vars

-----------------------------------------------------------------------------
(* What the claims speak about *)

Done == status = "done"

\* the input is the document with this body
DocIs(bodykids) == data.doc = Html(<<>>, None, bodykids)

Body == data.doc.kids[2].kids

\* a run without link whose only style is bold, or none
Run(string, bold) == TextRun(string, None, [NoStyle EXCEPT !.bold = bold])

\* the cells of a row that hold a block
CellBlocks(cells) ==
    LET held == SelectSeq(cells, LAMBDA c: c # None /\ "type" \in DOMAIN c[1])
    IN [i \in DOMAIN held |-> held[i][1]]

RECURSIVE BlocksIn(_)
\* the blocks of a sequence of blocks, with the blocks below them
BlocksIn(blocks) ==
    UNION {{blocks[i]} \cup BlocksIn(blocks[i].children)
                       \cup BlocksIn(CellBlocks(blocks[i].cells)) :
           i \in DOMAIN blocks}

\* every block made so far: the output, and the blocks the handlers still hold
AllBlocks == BlocksIn(content) \cup UNION {BlocksIn(stack[k].own) : k \in DOMAIN stack}

\* the blocks the frames hold, frame by frame
Held == [k \in DOMAIN stack |-> stack[k].own]

-----------------------------------------------------------------------------
(* C1 *)

\* C1: when _render is called for an element whose tag has no handler, the call
\* appends nothing to the output or to any block under construction, leaves the
\* style flags, the link, the title, the metadata and the base URL as they are,
\* raises nothing and enters no handler (no frame is pushed: the subtree is not
\* visited); no frame ever runs below an element without handler; and
\* <foo><p>hi</p></foo> at top level ends with no block at all.
C1_UnhandledDropped ==
    /\ [][(Pending /\ Child.tag \notin Handlers) =>
            /\ content' = content
            /\ Held' = Held
            /\ style' = style /\ href' = href
            /\ title' = title /\ meta' = meta /\ base_url' = base_url
            /\ status' = status
            /\ Len(stack') = Len(stack)]_vars
    /\ [](\A k \in DOMAIN stack :
             stack[k].h = "parse" \/ stack[k].elem.tag \in Handlers)
    /\ []((Done /\ DocIs(ExUnknown)) => content = <<>>)

\* <foo><p>hi</p></foo> has been parsed to the end: the foo element, with the
\* paragraph below it, has been passed over
C1_Witness == Done /\ DocIs(ExUnknown) /\ content = <<>>

-----------------------------------------------------------------------------
(* C2 *)

\* C2 as stated: <p><b>A<b>B</b>C</b></p> ends with three runs in the paragraph,
\* "A" bold, "B" bold, "C" not bold.
C2_ThreeRuns ==
    (Done /\ DocIs(ExToggle)) =>
        /\ Len(content) = 1
        /\ content[1].runs = <<Run(<<"A">>, TRUE), Run(<<"B">>, TRUE), Run(<<"C">>, FALSE)>>

\* C2 (amended): <p><b>A<b>B</b>C</b></p> ends with one paragraph of exactly two
\* runs: "AB" bold (the runs of A and B have the same annotations and link, and
\* concat merges them into one) and then "C" not bold.
C2_ToggleRuns ==
    (Done /\ DocIs(ExToggle)) =>
        /\ Len(content) = 1
        /\ content[1].type = "paragraph"
        /\ content[1].runs = <<Run(<<"A", "B">>, TRUE), Run(<<"C">>, FALSE)>>

C2_Witness == Done /\ DocIs(ExToggle) /\ Len(content[1].runs) = 2

-----------------------------------------------------------------------------
(* C3 *)

ImgDoc(url) == <<ElA("img", [NoAttrs EXCEPT !.src = Some(url)], None, <<>>, None)>>

\* C3: <img src="http://x/y.png"> ends with exactly one Image block of that URL,
\* and no Image block made from a data: URI is ever in the output.
C3_ImageBlocks ==
    /\ (Done /\ DocIs(ImgDoc(HttpUrl))) => content = <<UrlBlock("image", HttpUrl)>>
    /\ \A b \in AllBlocks : b.type = "image" => ~IsDataUrl(b.url[1])

-----------------------------------------------------------------------------
(* C4 *)

\* the container a parent names, as the sequence it appends to
Container(m, parent) ==
    IF parent = 0 THEN m.content
    ELSE IF IsTableRow(m, parent) THEN ParentBlock(m, parent).cells
         ELSE ParentBlock(m, parent).children

ThreeCells == [i \in 1..3 |-> El("td", Some(<<"a">>), <<>>, None)]

EmptyTables ==
    {<<El("table", x, k, None)>> :
        x \in {None, Some(<<"\n">>)},
        k \in {<<>>, <<El("tbody", None, <<>>, None)>>,
               <<El("caption", Some(<<"c">>), <<>>, None)>>}}

\* C4: when the table element has been processed, the Table is appended to its
\* parent if its width is greater than 0 and the parent is left as it is
\* otherwise; no Table of width 0 is in the output; a table without tr or td
\* ends with no block; a table with one row of three cells ends with one Table
\* of width 3.
C4_TableWidth ==
    /\ [][Returning("table") =>
            Container(St', Top.parent) =
                IF Width(Top.own[1]) > 0
                THEN Append(Container(St, Top.parent), Top.own[1])
                ELSE Container(St, Top.parent)]_vars
    /\ [](\A b \in BlocksIn(content) : b.type = "table" => Width(b) > 0)
    /\ []((Done /\ Body \in EmptyTables) => content = <<>>)
    /\ []((Done /\ DocIs(<<TableOf(<<El("tbody", None,
                                      <<El("tr", None, ThreeCells, None)>>, None)>>)>>))
            => /\ Len(content) = 1
               /\ content[1].type = "table"
               /\ Width(content[1]) = 3)

\* a table of width 3 is in the output
C4_Witness ==
    Done /\ content # <<>> /\ content[1].type = "table" /\ Width(content[1]) = 3

-----------------------------------------------------------------------------
(* C5 *)

\* a text as _process_text leaves it outside a Code block
Condensed(text) == IF condense_text(text) = None THEN <<>> ELSE condense_text(text)[1]

RECURSIVE TextOf(_)
\* the text of an element in document order: its leading text, then each child's
\* text and that child's tail
TextOf(elem) ==
    LET upto[i \in 0..Len(elem.kids)] ==
            IF i = 0 THEN Condensed(elem.text)
            ELSE upto[i - 1] \o TextOf(elem.kids[i]) \o Condensed(elem.kids[i].tail)
    IN upto[Len(elem.kids)]

\* the contents of the runs of a block, one after the other
RunsText(runs) ==
    LET upto[i \in 0..Len(runs)] ==
            IF i = 0 THEN <<>> ELSE upto[i - 1] \o runs[i].content
    IN upto[Len(runs)]

Titled(type, runs) == [Block(type) EXCEPT !.runs = runs]

\* C5: a paragraph of nested inline elements ends with the texts of its subtree
\* in document order (leading text, then per child its own text and its tail;
\* the texts are pairwise different letters), none lost; and
\* <h1>Title</h1><p>Hello <b>world</b></p><hr/> ends with Heading1 "Title",
\* Paragraph "Hello " plain and "world" bold, Divider, in this order.
C5_DocumentOrder ==
    /\ (Done /\ Body \in Nests) =>
           /\ Len(content) = 1
           /\ RunsText(content[1].runs) = TextOf(Body[1])
    /\ (Done /\ DocIs(ExEndToEnd)) =>
           content = <<Titled("heading_1", <<Run(<<"T", "i", "t", "l", "e">>, FALSE)>>),
                       Titled("paragraph",
                              <<Run(<<"H", "e", "l", "l", "o", " ">>, FALSE),
                                Run(<<"w", "o", "r", "l", "d">>, TRUE)>>),
                       Block("divider")>>

\* a paragraph with elements nested MaxNest deep has been parsed to the end, and
\* it holds the tail text of the outermost element
C5_Witness ==
    /\ Done /\ Body \in Nests
    /\ Len(content) = 1
    /\ Len(RunsText(content[1].runs)) = 2 * MaxNest
    /\ content[1].runs[Len(content[1].runs)].content[1] = Lower[1]

-----------------------------------------------------------------------------
(* C6 *)

ItemType(tag) == IF tag = "ol" THEN "numbered_list_item" ELSE "bulleted_list_item"

\* the item that the li children of the generated lists are to give
ExpectedItem(li, type) ==
    CASE li.text = Some(<<"a">>) -> Titled(type, <<Run(<<"a">>, FALSE)>>)
      [] li.text = Some(<<"b">>) ->
            Titled(type, <<Run(<<"b">>, FALSE), Run(<<"x">>, TRUE), Run(<<"y">>, FALSE)>>)
      [] li.text = None ->
            [Block(type) EXCEPT !.children =
                <<Titled("bulleted_list_item", <<Run(<<"d">>, FALSE)>>)>>]

\* C6: a ul, menu or ol ends with exactly one BulletedListItem / NumberedListItem
\* per direct li child, in document order, each holding what that li holds (its
\* runs, and an item of its own for the li of a list nested in it); an li below
\* a div child gives no item; <ul><li>a</li><li>b</li></ul> ends with two
\* BulletedListItem blocks of one run each.
C6_ListItems ==
    /\ (Done /\ Body \in Lists) =>
           LET lis == SelectSeq(Body[1].kids, LAMBDA k : k.tag = "li")
           IN content = [j \in 1..Len(lis) |-> ExpectedItem(lis[j], ItemType(Body[1].tag))]
    /\ (Done /\ DocIs(ExList)) =>
           content = <<Titled("bulleted_list_item", <<Run(<<"a">>, FALSE)>>),
                       Titled("bulleted_list_item", <<Run(<<"b">>, FALSE)>>)>>

\* a list of MaxItems children, one of them a div that holds an li and one an li
\* that holds a list, has been parsed to the end
C6_Witness ==
    /\ Done /\ Body \in Lists
    /\ Len(Body[1].kids) = MaxItems
    /\ \E i, j \in DOMAIN Body[1].kids :
          /\ Body[1].kids[i].tag = "div"
          /\ Body[1].kids[j].tag = "li" /\ Body[1].kids[j].text = None
    /\ Len(content) = MaxItems - 1

-----------------------------------------------------------------------------
(* C7 *)

\* a text that is there and holds nothing but whitespace
IsBlank(text) == text # None /\ \A i \in DOMAIN text[1] : text[1][i] \in WS

\* C7: when _process_contents hands a whitespace-only leading text or tail text
\* to _process_text for a text-bearing parent that is not a Code block, the
\* blocks under construction stay as they are: no run is made of it.
C7_NoBlankRun ==
    [][(/\ status = "running" /\ stack # <<>>
        /\ Top.loop = "contents"
        /\ \/ Top.pos = "text" /\ IsBlank(Top.elem.text)
           \/ Top.pos = "tail" /\ IsBlank(Top.kidsq[Top.i].tail)
        /\ IsTextBlock(St, Top.cpar)
        /\ ~IsCode(St, Top.cpar))
       => Held' = Held]_vars

-----------------------------------------------------------------------------
(* C8 *)

\* C8: when _render is called for an s, a strike or a del element, the
\* strikethrough flag is set, the contents are processed by the handler of del
\* against the same parent, and nothing is raised.
C8_StrikeAliases ==
    [][(Pending /\ Child.tag \in {"s", "strike", "del"}) =>
            /\ status' = "running"
            /\ style' = [style EXCEPT !.strikethrough = TRUE]
            /\ Len(stack') = Len(stack) + 1
            /\ stack'[Len(stack')].h = "del"
            /\ stack'[Len(stack')].elem = Child
            /\ stack'[Len(stack')].cpar = Top.cpar]_vars

-----------------------------------------------------------------------------
(* C9 *)

\* C9: a table of one row ends with a Table whose row has a cell for every td
\* and every th child of the tr.
C9_ThCells ==
    (/\ Done
     /\ \E r \in Rows : r.kids # <<>> /\ Body = <<TableOf(<<El("tbody", None, <<r>>, None)>>)>>)
    => /\ content # <<>>
       /\ content[1].type = "table"
       /\ Len(content[1].children[1].cells) >= Len(Body[1].kids[1].kids[1].kids)

-----------------------------------------------------------------------------
(* C10 *)

\* C10: no Paragraph, Heading, Quote or Code block holds a child block, and no
\* TableRow holds a block as a cell.
C10_NoMixing ==
    \A b \in AllBlocks :
        /\ b.type \in TextBlock \ ListItem => b.children = <<>>
        /\ b.type = "table_row" => CellBlocks(b.cells) = <<>>

-----------------------------------------------------------------------------
(* normalize_text on its own: a string, or None, is normalized, and the     *)
(* result is normalized again                                                *)

\* the strings of up to MaxText characters, letters and whitespace
NormTexts == {None} \cup {Some(s) : s \in SeqsUpTo(WS \cup {"a"}, MaxText)}

\* the state of HtmlParser.__init__, with no input and no parse under way
Idle ==
    /\ data = None
    /\ content = <<>>
    /\ title = None
    /\ meta = <<>>
    /\ base_url = None
    /\ href = None
    /\ style = NoStyle
    /\ stack = <<>>
    /\ status = "init"
    /\ CsvIdle

NormInit == Idle /\ norm \in {<<t>> : t \in NormTexts}

\* normalize_text is called with the latest value
call_normalize_text ==
    /\ Len(norm) \in 1..2
    /\ norm' = Append(norm, normalize_text(norm[Len(norm)]))
    /\ UNCHANGED <<data, content, title, meta, base_url, href, style, stack, status>>
    /\ UNCHANGED csv_vars

NormNext == call_normalize_text

NormSpec == NormInit /\ [][NormNext]_vars

-----------------------------------------------------------------------------
(* C11 *)

\* C11: normalize_text(normalize_text(s)) equals normalize_text(s) for every
\* string s and for None; None, the empty string and a string of nothing but
\* whitespace normalize to None.
C11_Idempotent ==
    /\ Len(norm) = 3 => norm[3] = norm[2]
    /\ (Len(norm) >= 2 /\ (norm[1] = None \/ IsBlank(norm[1]))) => norm[2] = None

\* a string with whitespace at its start, inside and at its end has been
\* normalized twice
C11_Witness ==
    /\ Len(norm) = 3
    /\ norm[1] = Some(<<"\n", "a", "\t", " ">>)
    /\ norm[2] = Some(<<"a">>)

-----------------------------------------------------------------------------
(* C12 *)

IsPrefix(a, b) == Len(a) <= Len(b) /\ SubSeq(b, 1, Len(a)) = a

\* the frame on top is at the end of a handler that holds a block: a handler
\* returns, or the loop of a list is through with one item
Completing ==
    /\ status = "running" /\ stack # <<>>
    /\ Top.own # None
    /\ \/ Top.pos = "after"
       \/ Top.pos = "child" /\ Top.i > Len(Top.kidsq)

\* C12: in every step the output is a prefix of the output after the step, and
\* so are the children (a list item's children, a table's rows) and the cells
\* of every block that a handler holds before and after the step: nothing is
\* removed, replaced or reordered.  When a handler is through with the block it
\* made, that block is the one element added at the end of its parent's
\* container, unless it is a Table of width 0, for which the container stays
\* as it is.
C12_AppendOnly ==
    [][/\ IsPrefix(content, content')
       /\ \A k \in DOMAIN stack \cap DOMAIN stack' :
             (/\ stack[k].own # None /\ stack'[k].own # None
              /\ ~(k = Len(stack) /\ Top.pos = "after"))
             => /\ stack'[k].own[1].type = stack[k].own[1].type
                /\ IsPrefix(stack[k].own[1].children, stack'[k].own[1].children)
                /\ IsPrefix(stack[k].own[1].cells, stack'[k].own[1].cells)
       /\ Completing =>
             LET before == Container(St, Top.parent)
                 after == Container(St', Top.parent)
             IN IF Top.own[1].type = "table" /\ Width(Top.own[1]) = 0
                THEN after = before
                ELSE /\ Len(after) = Len(before) + 1
                     /\ IsPrefix(before, after)
                     /\ IF IsTableRow(St, Top.parent)
                        THEN after[Len(after)] = Top.own
                        ELSE after[Len(after)] = Top.own[1]]_vars

\* a table under construction holds two rows, the first of MaxItems cells
C12_Witness ==
    /\ status = "running"
    /\ \E k \in DOMAIN stack :
          /\ stack[k].own # None
          /\ stack[k].own[1].type = "table"
          /\ Len(stack[k].own[1].children) = 2
          /\ Len(stack[k].own[1].children[1].cells) = MaxItems

-----------------------------------------------------------------------------
(* C13 *)

RECURSIVE TitlesIn(_)
\* the title elements that a traversal of elem encounters, in the order of the
\* traversal: none below an element without handler, below a title or below a
\* td without leading text; below a list its li children only, below a tr its
\* td children only
TitlesIn(elem) ==
    LET kids ==
            CASE elem.tag \notin Handlers -> <<>>
              [] elem.tag = "title" -> <<>>
              [] elem.tag \in {"ul", "ol", "menu"} -> SelectSeq(elem.kids, LAMBDA k : k.tag = "li")
              [] elem.tag = "tr" -> SelectSeq(elem.kids, LAMBDA k : k.tag = "td")
              [] elem.tag = "td" /\ elem.text = None -> <<>>
              [] OTHER -> elem.kids
        upto[i \in 0..Len(kids)] ==
            IF i = 0 THEN <<>> ELSE upto[i - 1] \o TitlesIn(kids[i])
    IN (IF elem.tag = "title" THEN <<elem>> ELSE <<>>) \o upto[Len(kids)]

\* C13: when parse has returned, the title is gather_text of the last title
\* element of the traversal if there is one, else the last component of the
\* source's name if it has a name, else None.
C13_Title ==
    Done =>
        LET ts == TitlesIn(data.doc)
        IN title = IF ts # <<>> THEN gather_text(ts[Len(ts)])
                   ELSE IF data.name # None
                        THEN Some(<<data.name[1][Len(data.name[1])]>>)
                        ELSE None

\* a named source with two title elements in its head and one in its body has
\* been parsed, and the title is that of the body's
C13_Witness ==
    /\ Done
    /\ data.name # None
    /\ Len(TitlesIn(data.doc)) = 3
    /\ TitlesIn(data.doc)[1].text # TitlesIn(data.doc)[2].text
    /\ title = Some(<<"B">>)

-----------------------------------------------------------------------------
(* C14 *)

\* the handlers that toggle a style flag (their aliases run them), and the flag
StyleHandlers == {"b", "i", "u", "del", "code"}

FlagOf(h) ==
    CASE h \in {"b", "strong"} -> "bold"
      [] h \in {"i", "em"} -> "italic"
      [] h \in {"u", "ins"} -> "underline"
      [] h \in {"del", "strike"} -> "strikethrough"
      [] h \in {"code", "kbd", "samp", "var"} -> "code"
      [] OTHER -> "none"

\* the runs that hold the character c
RunsWith(runs, c) == {i \in DOMAIN runs : \E j \in DOMAIN runs[i].content : runs[i].content[j] = c}

\* C14: the step in which the handler of a style element returns leaves that
\* style's flag false, and the step in which the handler of an a returns leaves
\* the link None, whatever they were before.  So in <p><X>A<Y>B</Y>v</X>u</p>
\* with X and Y of the same style the text v has not that style, and in
\* <p><a>A<object><a>B</a>C</object></a></p> the text C has no link.
C14_Toggle ==
    /\ [][\A h \in StyleHandlers : Returning(h) => ~style'[FlagOf(h)]]_vars
    /\ [][Returning("a") => href' = None]_vars
    /\ []((/\ Done /\ Body \in Nests
           /\ Body[1].kids[1].kids # <<>>
           /\ FlagOf(Body[1].kids[1].tag) # "none"
           /\ FlagOf(Body[1].kids[1].tag) = FlagOf(Body[1].kids[1].kids[1].tag))
          => /\ RunsWith(content[1].runs, Lower[2]) # {}
             /\ \A i \in RunsWith(content[1].runs, Lower[2]) :
                   ~content[1].runs[i].annotations[FlagOf(Body[1].kids[1].tag)])
    /\ []((Done /\ DocIs(ExLinks))
          => /\ RunsWith(content[1].runs, "C") # {}
             /\ \A i \in RunsWith(content[1].runs, "C") : content[1].runs[i].link = None)

\* the handler of a b (or strong) that is a child of a b has returned: the
\* outer handler is about to process the text after it, and bold is off
C14_Witness ==
    /\ status = "running" /\ stack # <<>>
    /\ Top.h = "b"
    /\ Top.pos = "tail"
    /\ Top.kidsq[Top.i].tag \in {"b", "strong"}
    /\ ~style.bold

-----------------------------------------------------------------------------
(* C15 *)

\* _process_contents is about to call _process_text, for the leading text or
\* for the tail text of the child just rendered
TextCall ==
    /\ status = "running" /\ stack # <<>>
    /\ Top.loop = "contents"
    /\ Top.pos \in {"text", "tail"}

\* the text of that call
CallText == IF Top.pos = "text" THEN Top.elem.text ELSE Top.kidsq[Top.i].tail

\* C15: a call of _process_text with a text that is None or empty, or with a
\* parent that is neither a text-bearing block nor a TableRow, adds nothing
\* anywhere: the output and every block under construction stay as they are
\* (no cell, and no null cell, is appended to a TableRow).
C15_ProcessTextFrame ==
    [][(/\ TextCall
        /\ \/ CallText = None
           \/ CallText[1] = <<>>
           \/ ~(IsTextBlock(St, Top.cpar) \/ IsTableRow(St, Top.cpar)))
       => (content' = content /\ Held' = Held)]_vars

-----------------------------------------------------------------------------
(* C16 *)

\* C16: when the handler of a tr is through with its loop, the TableRow holds
\* exactly one cell for each direct td child of the tr, whatever the td holds.
C16_OneCellPerTd ==
    Returning("tr") =>
        Len(Top.own[1].cells) = Len(SelectSeq(Top.elem.kids, LAMBDA k : k.tag = "td"))

-----------------------------------------------------------------------------
(* C17 *)

\* C17: when _render is called for a code, tt, kbd, samp or var element, the
\* code flag is set and the contents are processed by the handler of code
\* against the same parent, with no block made; and when that handler returns,
\* the flag is reset and no block is appended anywhere.
C17_CodeFamily ==
    /\ [][(Pending /\ Child.tag \in {"code", "tt", "kbd", "samp", "var"}) =>
            /\ style' = [style EXCEPT !.code = TRUE]
            /\ Len(stack') = Len(stack) + 1
            /\ stack'[Len(stack')].h = "code"
            /\ stack'[Len(stack')].elem = Child
            /\ stack'[Len(stack')].cpar = Top.cpar
            /\ stack'[Len(stack')].own = None
            /\ content' = content]_vars
    /\ [][(/\ status = "running" /\ stack # <<>>
           /\ Top.elem.tag \in {"code", "tt", "kbd", "samp", "var"}
           /\ Top.pos = "child" /\ Top.i > Len(Top.kidsq)) =>
            /\ ~style'.code
            /\ content' = content
            /\ \A k \in DOMAIN stack' : stack'[k].own = stack[k].own]_vars

-----------------------------------------------------------------------------
(* C18 *)

\* the runs before a step are still there after it, each with the annotations
\* and the link it had (its content may have grown by a merge)
RunsKept(before, after) ==
    /\ Len(before) <= Len(after)
    /\ \A i \in DOMAIN before :
          /\ after[i].annotations = before[i].annotations
          /\ after[i].link = before[i].link
          /\ IsPrefix(before[i].content, after[i].content)

\* the text of a call of _process_text as the run is to hold it
CallString == IF IsCode(St, Top.cpar) THEN CallText ELSE condense_text(CallText)

\* C18: a call of _process_text that makes a run gives it the five flags and
\* the link as they are at the call: the text is at the end of the last run of
\* a text-bearing parent, or is the last cell of a TableRow, with these
\* annotations and this link (the placeholder of a td without text too).  No
\* step alters the annotations or the link of a
\* run that is already in a block, be the block in the output, held by a
\* handler, or appended by the handler that held it.
C18_Snapshot ==
    /\ [][(TextCall /\ CallString # None /\ CallString[1] # <<>>) =>
            /\ IsTextBlock(St, Top.cpar) =>
                  LET runs == ParentBlock(St', Top.cpar).runs
                      last == runs[Len(runs)]
                      n == Len(CallString[1])
                  IN /\ runs # <<>>
                     /\ last.annotations = style
                     /\ last.link = href
                     /\ Len(last.content) >= n
                     /\ SubSeq(last.content, Len(last.content) - n + 1,
                               Len(last.content)) = CallString[1]
            /\ IsTableRow(St, Top.cpar) =>
                  LET cells == ParentBlock(St', Top.cpar).cells
                  IN /\ Len(cells) = Len(ParentBlock(St, Top.cpar).cells) + 1
                     /\ cells[Len(cells)] = Some(TextRun(CallString[1], href, style))]_vars
    /\ [][(Dispatch("td") /\ Child.text = None /\ IsTableRow(St, Top.cpar)) =>
            LET cells == ParentBlock(St', Top.cpar).cells
            IN cells = Append(ParentBlock(St, Top.cpar).cells,
                              Some(TextRun(<<" ">>, href, style)))]_vars
    /\ [][/\ IsPrefix(content, content')
          /\ \A k \in DOMAIN stack \cap DOMAIN stack' :
                (/\ stack[k].own # None /\ stack'[k].own # None
                 /\ ~(k = Len(stack) /\ Top.pos = "after"))
                => RunsKept(stack[k].own[1].runs, stack'[k].own[1].runs)
          /\ (Completing /\ ~(Top.own[1].type = "table" /\ Width(Top.own[1]) = 0)) =>
                LET after == Container(St', Top.parent)
                    last == after[Len(after)]
                IN IF IsTableRow(St, Top.parent)
                   THEN last[1].runs = Top.own[1].runs
                   ELSE last.runs = Top.own[1].runs]_vars

\* a paragraph in the output holds a run that is bold and has a link, made
\* inside <a><b>, while all flags are off again and the link is None
C18_Witness ==
    /\ Done
    /\ style = NoStyle /\ href = None
    /\ content # <<>>
    /\ \E i \in DOMAIN content[1].runs :
          /\ content[1].runs[i].annotations.bold
          /\ content[1].runs[i].link # None

-----------------------------------------------------------------------------
(* C19 *)

\* a handler of this kind is running: its element is an open ancestor
Open(h) == \E k \in DOMAIN stack : stack[k].h = h

RECURSIVE NestTags(_)
\* the tags of a chain of nested elements, from the outermost on
NestTags(elem) ==
    <<elem.tag>> \o (IF elem.kids = <<>> THEN <<>> ELSE NestTags(elem.kids[1]))

\* how many elements of the chain enclose the character c of a generated
\* paragraph: Upper[i] is the leading text of the i-th, Lower[i] its tail
Depth(c) ==
    IF \E i \in DOMAIN Upper : Upper[i] = c
    THEN CHOOSE i \in DOMAIN Upper : Upper[i] = c
    ELSE (CHOOSE i \in DOMAIN Lower : Lower[i] = c) - 1

\* C19: while a traversal runs and when it has returned, a style flag is on
\* only if a handler of that style is among the running ones, and the link is
\* set only if the handler of an a is; when parse has returned, the flags are
\* all off and the link is None; and in a paragraph of nested inline elements
\* every character of every run has a style only if one of the elements around
\* it is of that style, and a link only if one of them is an a.
C19_OpenAncestors ==
    /\ status \in {"running", "done"} =>
          /\ \A h \in StyleHandlers : style[FlagOf(h)] => Open(h)
          /\ href # None => Open("a")
    /\ Done => (style = NoStyle /\ href = None)
    /\ (Done /\ Body \in Nests) =>
          LET tags == NestTags(Body[1].kids[1])
              runs == content[1].runs
          IN \A i \in DOMAIN runs : \A j \in DOMAIN runs[i].content :
                LET around == {tags[d] : d \in 1..Depth(runs[i].content[j])}
                IN /\ \A h \in StyleHandlers :
                         runs[i].annotations[FlagOf(h)] =>
                             \E t \in around : FlagOf(t) = FlagOf(h)
                   /\ runs[i].link # None => "a" \in around

\* the leading text of an element nested MaxNest deep is about to be
\* processed with a flag on and the link set, below a b and an a
C19_Witness ==
    /\ TextCall /\ Top.pos = "text"
    /\ Len(stack) = 4 + MaxNest
    /\ style.bold /\ href # None
    /\ Open("b") /\ Open("a")

-----------------------------------------------------------------------------
(* CsvParser: parser.py, lines 68 to 151.  The rows are what csv.reader      *)
(* makes of the data: lists of strings, an empty list for a blank line.      *)

Range(f) == {f[i] : i \in DOMAIN f}

\* str(column)
Digits == <<"0", "1", "2", "3", "4", "5", "6", "7", "8", "9">>

\* d[key] = value on a dict
Put(d, key, value) ==
    [k \in DOMAIN d \cup {key} |-> IF k = key THEN value ELSE d[k]]

\* types.Title.from_value(raw), types.RichText.from_value(raw)
TypedValue(kind, raw) == [type |-> kind, value |-> raw]

\* the parser's fields as one record
Cs == [schema |-> schema, names |-> _field_names, content |-> content, status |-> status]

\* the loop of _build_schema without its renaming
unique_name_skip(field, names, column) == field

RECURSIVE unique_name(_, _, _)
\* while field in self._field_names: field = f"{field}_{column}"
unique_name(field, names, column) ==
    IF field \in Range(names)
    THEN unique_name(field \o <<"_", Digits[column + 1]>>, names, column)
    ELSE field

RECURSIVE build_schema_from(_, _, _)
\* the loop of _build_schema, from the given column on
build_schema_from(m, fields, column) ==
    IF column >= Len(fields) THEN m
    ELSE LET field == unique_name(Strip(fields[column + 1]), m.names, column)
             type == IF column = _title_index THEN "title" ELSE "rich_text"
         IN build_schema_from([m EXCEPT !.schema = Put(@, field, type),
                                        !.names = Append(@, field)],
                              fields, column + 1)

\* _build_schema(*fields); fields that are numbers (no header row) have no
\* strip, and the first of them raises AttributeError
build_schema(m, fields, strings) ==
    IF Len(fields) < 1 THEN [m EXCEPT !.status = "ValueError"]
    ELSE IF ~strings THEN [m EXCEPT !.status = "AttributeError"]
    ELSE build_schema_from(m, fields, 0)

\* _build_record(*fields)
build_record(m, fields) ==
    IF Len(fields) # Cardinality(DOMAIN m.schema)
    THEN [m EXCEPT !.status = "ValueError"]
    ELSE LET cols == 0..(Len(fields) - 1)
             \* the column whose assignment to record[name] is the last one
             last(name) == CHOOSE c \in cols :
                              /\ m.names[c + 1] = name
                              /\ \A d \in cols : m.names[d + 1] = name => d <= c
             record == [name \in {m.names[c + 1] : c \in cols} |->
                           TypedValue(IF last(name) = _title_index
                                      THEN "title" ELSE "rich_text",
                                      fields[last(name) + 1])]
         IN [m EXCEPT !.content = Append(@, record)]

\* the parser's fields become those of the record
CsvSet(m) ==
    /\ schema' = m.schema
    /\ _field_names' = m.names
    /\ content' = m.content
    /\ status' = IF m.status \in {"ValueError", "AttributeError"} THEN m.status
                 ELSE "entries"
    /\ UNCHANGED <<data, title, meta, base_url, href, style, stack, norm,
                   _has_header, _title_index>>

\* CsvParser.parse, to the call self._process(reader)
CsvParser_parse ==
    /\ status = "init"
    /\ title' = IF data.name # None THEN Some(basename(data.name[1])) ELSE title
    /\ reader' = data.rows
    /\ status' = "process"
    /\ UNCHANGED <<data, content, meta, base_url, href, style, stack, norm,
                   schema, _field_names, _has_header, _title_index>>

\* _process, to its loop: the first row becomes the schema
_process ==
    /\ status = "process"
    /\ IF reader = <<>>
       THEN /\ status' = "ValueError"
            /\ UNCHANGED <<schema, _field_names, content, reader>>
            /\ UNCHANGED <<data, title, meta, base_url, href, style, stack, norm,
                           _has_header, _title_index>>
       ELSE LET header == Head(reader)
                cols == [i \in 1..Len(header) |-> i - 1]
            IN /\ reader' = Tail(reader)
               /\ IF _has_header
                  THEN CsvSet(build_schema(Cs, header, TRUE))
                  ELSE LET m == build_schema(Cs, cols, FALSE)
                       IN CsvSet(IF m.status \in {"ValueError", "AttributeError"}
                                 THEN m ELSE build_record(m, header))

\* one turn of the loop of _process: self._build_record(*entry)
_build_record ==
    /\ status = "entries"
    /\ reader # <<>>
    /\ reader' = Tail(reader)
    /\ CsvSet(build_record(Cs, Head(reader)))

\* the reader is exhausted: _process and parse return
_process_ret ==
    /\ status = "entries"
    /\ reader = <<>>
    /\ status' = "done"
    /\ UNCHANGED <<data, content, title, meta, base_url, href, style, stack, norm>>
    /\ UNCHANGED csv_vars

\* the fields of a header row: a name, the name with whitespace around it, a
\* name that looks like a renamed one, another name
HeaderFields == {<<"a">>, <<" ", "a", " ">>, <<"a", "_", "2">>, <<"b">>}

\* a row of data: up to MaxCols fields
DataRows == {[i \in 1..n |-> <<"x">>] : n \in 0..MaxCols}

CsvInputs ==
    {[name |-> n, rows |-> r] :
        n \in {None, Some(<<"notes", "table.csv">>)},
        r \in {<<>>} \cup {<<h>> \o d : h \in SeqsUpTo(HeaderFields, MaxCols),
                                        d \in SeqsUpTo(DataRows, MaxRows)}}

\* CsvParser.__init__(header_row, title_column), and the data parse is given
CsvInit ==
    /\ data \in CsvInputs
    /\ content = <<>>
    /\ title = None
    /\ status = "init"
    /\ schema = <<>>
    /\ _field_names = <<>>
    /\ _has_header \in BOOLEAN
    /\ _title_index \in {0, 1}
    /\ reader = <<>>
    /\ meta = <<>> /\ base_url = None /\ href = None /\ style = NoStyle
    /\ stack = <<>> /\ norm = <<>>

CsvNext == CsvParser_parse \/ _process \/ _build_record \/ _process_ret

CsvSpec == CsvInit /\ [][CsvNext]_vars

-----------------------------------------------------------------------------
(* C20 *)

\* _build_schema has run to its end for the header row of the data
SchemaBuilt ==
    /\ _has_header
    /\ status \in {"entries", "done"} \/ (status = "ValueError" /\ schema # <<>>)

\* C20: when _build_schema has run for a header row, the schema has one column
\* for each field of the header and the names of the columns are pairwise
\* different, a repeated name in the header or not; every record in content has
\* exactly the schema's columns, one value each; a call of _build_record with
\* a row whose length is not the number of columns raises ValueError and
\* leaves content as it is; and no call removes or changes a record.
C20_CsvSchema ==
    /\ [](SchemaBuilt =>
            /\ Len(_field_names) = Len(data.rows[1])
            /\ Cardinality(DOMAIN schema) = Len(data.rows[1])
            /\ DOMAIN schema = Range(_field_names)
            /\ \A i, j \in DOMAIN _field_names :
                  _field_names[i] = _field_names[j] => i = j)
    /\ [](\A i \in DOMAIN content : DOMAIN content[i] = DOMAIN schema)
    /\ [][(status = "entries" /\ reader # <<>>
           /\ Len(Head(reader)) # Cardinality(DOMAIN schema))
          => (status' = "ValueError" /\ content' = content)]_vars
    /\ [][IsPrefix(content, content')]_vars

\* a header of MaxCols fields that are the same name after the strip: one
\* record has been appended, and the next row, one field short, has raised
C20_Witness ==
    /\ status = "ValueError"
    /\ Len(data.rows) = 3
    /\ Len(data.rows[1]) = MaxCols
    /\ \A i \in 1..MaxCols : Strip(data.rows[1][i]) = <<"a">>
    /\ data.rows[1][1] # data.rows[1][2]
    /\ Len(data.rows[3]) = MaxCols - 1
    /\ Len(content) = 1
    /\ Cardinality(DOMAIN content[1]) = MaxCols

====
